---- MODULE Spec2Model ----
(***************************************************************************)
(* Pupil concentration tracker (PupilConcentrationTrackerComponent):       *)
(* calibration, scoring and smoothing of the concentration level, driven   *)
(* by the requestAnimationFrame / estimateFaces detection loop.            *)
(*                                                                         *)
(* JavaScript numbers are represented in fixed point: a value x is the     *)
(* integer x * FP, and a division rounds toward zero.  Pupil sizes are in  *)
(* pixels * FP, scores and levels in points * FP, factors in units of FP.  *)
(***************************************************************************)
EXTENDS Integers, Sequences, FiniteSets, TLC

VARIABLES
    concentrationLevel,   \* this.concentrationLevel
    isTracking,           \* this.isTracking
    isCalibrated,         \* this.isCalibrated
    calibrationProgress,  \* this.calibrationProgress
    baselinePupilSize,    \* this.baselinePupilSize
    pupilSizeHistory,     \* this.pupilSizeHistory
    config,               \* this.config
    detector,             \* this.detector # null
    metaArmed,            \* video.onloadedmetadata is set and the event is still to come
    rafCur,               \* the callback whose id is this.animationId is pending
    rafStale,             \* pending animation-frame callbacks with an older id
    inflight,             \* estimateFaces calls that have not resolved yet
    frames,               \* frames processed so far (bounds the run)
    accepted,             \* history variable: the samples accepted since the last reset
    lastEvent,            \* history variable: the kind of the last frame processed,
                          \* or "recalibrate" after a call of recalibrate()
    call,                 \* the last call of a function made on its own: its
                          \* arguments, its locals and its result
    before,               \* history variable: the session as recalibrate() found it
    clock,                \* performance.now(), this.lastDetectionTime, and as
                          \* history the last start of a detection and what
                          \* the last call of startDetection() did
    replay,               \* history variable: the frames and commands of a
                          \* first run and the session after each of them,
                          \* for a second run that is given the same
    metrics               \* this.metrics: its level, isCalibrated and
                          \* calibrationProgress

vars == <<concentrationLevel, isTracking, isCalibrated, calibrationProgress,
          baselinePupilSize, pupilSizeHistory, config, detector, metaArmed,
          rafCur, rafStale, inflight, frames, accepted, lastEvent, call,
          before, clock, replay, metrics>>

engine == <<concentrationLevel, isCalibrated, calibrationProgress,
            baselinePupilSize, pupilSizeHistory>>

loop == <<rafCur, rafStale, inflight>>

study == <<call, before, clock, replay, metrics>>

\* ------------------------------------------------------------------ numbers

\* Fixed-point scale of the model's numbers (three decimals).
FP == 1000

Min(a, b) == IF a <= b THEN a ELSE b

Max(a, b) == IF a >= b THEN a ELSE b

RECURSIVE SeqSum(_)
SeqSum(s) == IF s = <<>> THEN 0 ELSE Head(s) + SeqSum(Tail(s))

RECURSIVE SqrtIter(_, _, _)
SqrtIter(n, lo, hi) ==
    IF lo >= hi THEN lo
    ELSE LET mid == (lo + hi + 1) \div 2
         IN  IF mid * mid <= n THEN SqrtIter(n, mid, hi)
             ELSE SqrtIter(n, lo, mid - 1)

\* Math.sqrt, rounded down (46340 is the largest root of a 32-bit integer)
Sqrt(n) == SqrtIter(n, 0, Min(n, 46340))

\* Math.hypot of two differences in whole pixels, rounded down
hypot(dx, dy) == Sqrt((dx * dx + dy * dy) * FP * FP)

\* the value NaN of a division 0 / 0, which no other result of the model
\* equals
NaN == 0 - 1

\* array.slice(-k)
LastK(s, k) == IF Len(s) <= k THEN s ELSE SubSeq(s, Len(s) - k + 1, Len(s))

\* ------------------------------------------------------------------- config

\* config.calibrationFrames (30 in the source, scaled down)
calibrationFrames == 2

\* config.maxHistorySize (100 in the source, scaled down)
maxHistorySize == 3

\* at most this many detection loops (pending callbacks plus calls in flight)
MaxLoops == 2

\* at most this many frames are processed in a run
MaxFrames == 4

minPupilSize == 2 * FP

maxPupilSize == 50 * FP

\* the sample windows of calculatePupilVariability and calculateStability
VariabilityWindow == 10

StabilityWindow == 20

\* the landmark count of a refined face mesh
RefinedLandmarks == 478

InitialConfig ==
    [frameRate         |-> 30,
     smoothingFactor   |-> (3 * FP) \div 10,
     sensitivity       |-> 2 * FP,
     calibrationFrames |-> calibrationFrames,
     maxHistorySize    |-> maxHistorySize,
     minPupilSize      |-> minPupilSize,
     maxPupilSize      |-> maxPupilSize]

\* -------------------------------------------------------------------- input

\* One eye's eyelid or iris landmarks, reduced to what the code reads of
\* them: whether all four are present, and the two distances between them.
Landmarks(present, v, h) == [present |-> present, v |-> v, h |-> h]

OpenLid     == Landmarks(TRUE, 300, 1000)
ThresholdLid == Landmarks(TRUE, 100, 1000)   \* aspect ratio exactly 0.1
FlatLid     == Landmarks(TRUE, 300, 0)       \* corners coincide
MissingLid  == Landmarks(FALSE, 0, 0)

Iris(d) == Landmarks(TRUE, d * FP, d * FP)
OvalIris    == Landmarks(TRUE, 3 * FP, 5 * FP)
MissingIris == Landmarks(FALSE, 0, 0)

Face(kp, n, ll, rl, li, ri) ==
    [keypoints |-> kp, count |-> n,
     lid  |-> [left |-> ll, right |-> rl],
     iris |-> [left |-> li, right |-> ri]]

\* both eyes open, the iris pairs giving every kind of average diameter
IrisPairs ==
    { <<Iris(2), Iris(2)>>,      \* average = minPupilSize
      <<Iris(2), OvalIris>>,     \* average 3
      <<OvalIris, OvalIris>>,    \* average 4
      <<Iris(50), Iris(50)>>,    \* average = maxPupilSize
      <<Iris(1), Iris(2)>>,      \* average below minPupilSize
      <<Iris(50), Iris(52)>>,    \* average above maxPupilSize
      <<MissingIris, Iris(3)>>,
      <<Iris(3), Iris(0)>> }

\* an eye that is not open, with irises that would give a valid or no sample
ShutFaces ==
    { Face(TRUE, RefinedLandmarks, ThresholdLid, OpenLid, OvalIris, OvalIris),
      Face(TRUE, RefinedLandmarks, OpenLid, ThresholdLid, Iris(50), Iris(50)),
      Face(TRUE, RefinedLandmarks, OpenLid, FlatLid, Iris(2), OvalIris),
      Face(TRUE, RefinedLandmarks, MissingLid, OpenLid, MissingIris, Iris(3)) }

Faces ==
    { Face(TRUE, RefinedLandmarks, OpenLid, OpenLid, p[1], p[2]) : p \in IrisPairs }
    \cup ShutFaces
    \cup
    { Face(TRUE, RefinedLandmarks - 1, OpenLid, OpenLid, OvalIris, OvalIris),
      Face(FALSE, 0, MissingLid, MissingLid, MissingIris, MissingIris) }

AnyFace == Face(FALSE, 0, MissingLid, MissingLid, MissingIris, MissingIris)

\* what estimateFaces does: it throws, finds no face, or returns a face
Detections ==
    { [kind |-> "throw", face |-> AnyFace], [kind |-> "none", face |-> AnyFace] }
    \cup { [kind |-> "face", face |-> f] : f \in Faces }

\* ----------------------------------------------------------------- geometry

\* isEyeOpen counting an aspect ratio of exactly 0.1 as open
isEyeOpenInclusive(face, side) ==
    IF ~face.keypoints \/ face.count < RefinedLandmarks THEN FALSE
    ELSE IF ~face.lid[side].present THEN FALSE
    ELSE IF face.lid[side].h = 0 THEN FALSE
    ELSE 10 * face.lid[side].v >= face.lid[side].h

\* calculatePupilSize holding its result within the pupil bounds
calculatePupilSizeClamped(face, side) ==
    IF ~face.keypoints \/ face.count < RefinedLandmarks THEN 0
    ELSE IF ~face.iris[side].present THEN 0
    ELSE Max(minPupilSize,
             Min(maxPupilSize, (face.iris[side].v + face.iris[side].h) \div 2))

\* isEyeOpen(keypoints, side)
isEyeOpen(face, side) ==
    IF ~face.keypoints \/ face.count < RefinedLandmarks THEN FALSE
    ELSE IF ~face.lid[side].present THEN FALSE
    ELSE IF face.lid[side].h = 0 THEN FALSE
    ELSE 10 * face.lid[side].v > face.lid[side].h      \* v / h > 0.1

\* calculatePupilSize(keypoints, side)
calculatePupilSize(face, side) ==
    IF ~face.keypoints \/ face.count < RefinedLandmarks THEN 0
    ELSE IF ~face.iris[side].present THEN 0
    ELSE (face.iris[side].v + face.iris[side].h) \div 2

\* ------------------------------------------------------------------ scoring

\* smoothValue with the new value at full weight
smoothValueUnweighted(currentValue, newValue) ==
    (currentValue * config.smoothingFactor + newValue * FP) \div FP

\* smoothValue returning the new value as it is
smoothValueNoSmoothing(currentValue, newValue) == newValue

\* smoothValue taking a late value as it is
smoothValueUnlessLate(currentValue, newValue) ==
    IF clock.now > clock.lastDetectionTime
    THEN newValue
    ELSE (currentValue * config.smoothingFactor
            + newValue * (FP - config.smoothingFactor)) \div FP

\* smoothValue(currentValue, newValue)
smoothValue(currentValue, newValue) ==
    (currentValue * config.smoothingFactor
       + newValue * (FP - config.smoothingFactor)) \div FP

\* calculatePupilVariability taking the whole history, not its last ten
calculatePupilVariabilityOfAll(h) ==
    IF Len(h) < VariabilityWindow THEN 0
    ELSE LET recent   == h
             mean     == SeqSum(recent) \div Len(recent)
             variance == SeqSum([i \in 1..Len(recent) |->
                                   (recent[i] - mean) * (recent[i] - mean)])
                           \div Len(recent)
         IN  Min(FP, (Sqrt(variance) * FP) \div mean)

\* calculatePupilVariability(), of the history h
calculatePupilVariability(h) ==
    IF Len(h) < VariabilityWindow THEN 0
    ELSE LET recent   == LastK(h, VariabilityWindow)
             mean     == SeqSum(recent) \div Len(recent)
             variance == SeqSum([i \in 1..Len(recent) |->
                                   (recent[i] - mean) * (recent[i] - mean)])
                           \div Len(recent)
         IN  IF mean = 0
             THEN IF variance = 0 THEN NaN     \* Math.min(1, 0 / 0)
                  ELSE FP                      \* Math.min(1, Infinity)
             ELSE Min(FP, (Sqrt(variance) * FP) \div mean)

\* calculateStability(), of the history h
calculateStability(h) ==
    IF Len(h) < StabilityWindow THEN 0
    ELSE LET recent   == LastK(h, StabilityWindow)
             mean     == SeqSum(recent) \div Len(recent)
             variance == SeqSum([i \in 1..Len(recent) |->
                                   (recent[i] - mean) * (recent[i] - mean)])
                           \div Len(recent)
         IN  IF mean = 0
             THEN IF variance = 0 THEN NaN     \* Math.max(0, 1 - 0 / 0)
                  ELSE 0                       \* Math.max(0, 1 - Infinity)
             ELSE LET stability ==
                          Max(0, FP - (Sqrt(variance) * FP) \div mean)
                  IN  Min(FP, stability)

\* dilationScoreOf rising from a ratio of 0.9 on
dilationScoreOfEarlyRise(dilationRatio) ==
    IF dilationRatio >= FP
    THEN LET optimalRange ==
                 Min(FP, Max(0, ((dilationRatio - (9 * FP) \div 10) * FP)
                                   \div (FP \div 5)))
         IN  40 * FP + optimalRange * 20
    ELSE LET constriction ==
                 ((FP - Max((7 * FP) \div 10, dilationRatio)) * FP)
                    \div ((3 * FP) \div 10)
         IN  40 * FP - constriction * 40

\* dilationScoreOf without the cap of the optimal range
dilationScoreOfUncapped(dilationRatio) ==
    IF dilationRatio >= FP
    THEN LET optimalRange ==
                 Max(0, ((dilationRatio - FP) * FP) \div (FP \div 5))
         IN  40 * FP + optimalRange * 20
    ELSE LET constriction ==
                 ((FP - Max((7 * FP) \div 10, dilationRatio)) * FP)
                    \div ((3 * FP) \div 10)
         IN  40 * FP - constriction * 40

\* dilationScoreOf without the floor of the constriction
dilationScoreOfNoFloor(dilationRatio) ==
    IF dilationRatio >= FP
    THEN LET optimalRange ==
                 Min(FP, Max(0, ((dilationRatio - FP) * FP) \div (FP \div 5)))
         IN  40 * FP + optimalRange * 20
    ELSE LET constriction ==
                 ((FP - dilationRatio) * FP) \div ((3 * FP) \div 10)
         IN  40 * FP - constriction * 40

\* dilationScoreOf with the optimal range reaching up to 1.3
dilationScoreOfWideRange(dilationRatio) ==
    IF dilationRatio >= FP
    THEN LET optimalRange ==
                 Min(FP, Max(0, ((dilationRatio - FP) * FP)
                                   \div ((3 * FP) \div 10)))
         IN  40 * FP + optimalRange * 20
    ELSE LET constriction ==
                 ((FP - Max((7 * FP) \div 10, dilationRatio)) * FP)
                    \div ((3 * FP) \div 10)
         IN  40 * FP - constriction * 40

\* dilationScoreOf with the constriction floored at 0.75
dilationScoreOfFloorThreeQuarters(dilationRatio) ==
    IF dilationRatio >= FP
    THEN LET optimalRange ==
                 Min(FP, Max(0, ((dilationRatio - FP) * FP) \div (FP \div 5)))
         IN  40 * FP + optimalRange * 20
    ELSE LET constriction ==
                 ((FP - Max((3 * FP) \div 4, dilationRatio)) * FP)
                    \div (FP \div 4)
         IN  40 * FP - constriction * 40

\* the dilation score of calculateConcentrationScore
dilationScoreOf(dilationRatio) ==
    IF dilationRatio >= FP
    THEN LET optimalRange ==
                 Min(FP, Max(0, ((dilationRatio - FP) * FP) \div (FP \div 5)))
         IN  40 * FP + optimalRange * 20
    ELSE LET constriction ==
                 ((FP - Max((7 * FP) \div 10, dilationRatio)) * FP)
                    \div ((3 * FP) \div 10)
         IN  40 * FP - constriction * 40

\* stabilityScoreOf without the sensitivity
stabilityScoreOfNoSensitivity(variability) ==
    Max(0, (FP - Min(FP, variability)) * 30)

\* the stability score of calculateConcentrationScore
stabilityScoreOf(variability) ==
    Max(0, (FP - Min(FP, (variability * config.sensitivity) \div FP)) * 30)

\* the focus score of calculateConcentrationScore
focusScoreOf(stability) == Max(0, stability * 10)

\* calculateConcentrationScore(dilationRatio, variability, stability)
calculateConcentrationScore(dilationRatio, variability, stability) ==
    LET dilationScore  == dilationScoreOf(dilationRatio)
        stabilityScore == stabilityScoreOf(variability)
        focusScore     == focusScoreOf(stability)
        totalScore     == dilationScore + stabilityScore + focusScore
    IN  Max(0, Min(100 * FP, totalScore))

\* -------------------------------------------------------------- calibration

\* isInvalidPupilSize without the upper bound
isInvalidPupilSizeNoUpperBound(averagePupilSize) ==
    \/ averagePupilSize <= 0
    \/ averagePupilSize < config.minPupilSize

\* updateConcentration: the validity test of the average pupil size
isInvalidPupilSize(averagePupilSize) ==
    \/ averagePupilSize <= 0
    \/ averagePupilSize < config.minPupilSize
    \/ averagePupilSize > config.maxPupilSize

\* pushHistory dropping the newest sample past maxHistorySize
pushHistoryDropsNewest(h, averagePupilSize) ==
    LET pushed == Append(h, averagePupilSize)
    IN  IF Len(pushed) > config.maxHistorySize
        THEN SubSeq(pushed, 1, config.maxHistorySize) ELSE pushed

\* updateConcentration: push, then shift past maxHistorySize
pushHistory(h, averagePupilSize) ==
    LET pushed == Append(h, averagePupilSize)
    IN  IF Len(pushed) > config.maxHistorySize THEN Tail(pushed) ELSE pushed

\* updateConcentration: the calibration progress of a history of length n
progressOf(n) == Min(100 * FP, (n * 100 * FP) \div config.calibrationFrames)

\* updateConcentration: a calibration sample counts toward the baseline
isCalibrationSample(s) == s > config.minPupilSize /\ s < config.maxPupilSize

\* updateConcentration: validHistory
validHistory(h) ==
    SelectSeq(SubSeq(h, 1, Min(Len(h), config.calibrationFrames)),
              isCalibrationSample)

\* calibrates without the test of the length of the history
calibratesEarly(h) ==
    /\ ~isCalibrated
    /\ 2 * Len(validHistory(h)) >= config.calibrationFrames

\* calibrates without the test of isCalibrated
calibratesAgain(h) ==
    /\ Len(h) >= config.calibrationFrames
    /\ 2 * Len(validHistory(h)) >= config.calibrationFrames

\* updateConcentration: the auto-calibration test
calibrates(h) ==
    /\ ~isCalibrated
    /\ Len(h) >= config.calibrationFrames
    /\ 2 * Len(validHistory(h)) >= config.calibrationFrames

\* updateConcentration: the new baseline
baselineOf(h) == SeqSum(validHistory(h)) \div Len(validHistory(h))

\* updateConcentration(), after leftPupilSize and rightPupilSize were set to
\* left and right
updateConcentration(left, right) ==
    LET averagePupilSize == (left + right) \div 2
    IN  IF isInvalidPupilSize(averagePupilSize)
        THEN /\ concentrationLevel' = smoothValue(concentrationLevel, 0)
             /\ UNCHANGED <<pupilSizeHistory, calibrationProgress,
                            isCalibrated, baselinePupilSize>>
        ELSE LET h          == pushHistory(pupilSizeHistory, averagePupilSize)
                 calibrated == isCalibrated \/ calibrates(h)
                 baseline   == IF calibrates(h) THEN baselineOf(h)
                               ELSE baselinePupilSize
             IN  /\ pupilSizeHistory' = h
                 /\ calibrationProgress' = progressOf(Len(h))
                 /\ isCalibrated' = calibrated
                 /\ baselinePupilSize' = baseline
                 /\ IF calibrated /\ baseline > 0
                    THEN LET dilationRatio == (averagePupilSize * FP) \div baseline
                             score == calculateConcentrationScore(
                                          dilationRatio,
                                          calculatePupilVariability(h),
                                          calculateStability(h))
                         IN  concentrationLevel' =
                                 smoothValue(concentrationLevel, score)
                    ELSE UNCHANGED concentrationLevel

\* resetCurrentMetrics forgetting the calibration too
resetCurrentMetricsForgetsCalibration ==
    /\ concentrationLevel' = smoothValue(0, 0)
    /\ isCalibrated' = FALSE
    /\ baselinePupilSize' = 0
    /\ UNCHANGED <<pupilSizeHistory, calibrationProgress>>

\* resetCurrentMetrics()
resetCurrentMetrics ==
    /\ concentrationLevel' = smoothValue(0, 0)
    /\ UNCHANGED <<pupilSizeHistory, calibrationProgress, isCalibrated,
                   baselinePupilSize>>

\* resetCalibration forgetting the baseline
resetCalibrationKeepsBaseline ==
    /\ isCalibrated' = FALSE
    /\ UNCHANGED baselinePupilSize
    /\ pupilSizeHistory' = <<>>
    /\ calibrationProgress' = 0
    /\ concentrationLevel' = 0

\* resetCalibration forgetting the progress
resetCalibrationKeepsProgress ==
    /\ isCalibrated' = FALSE
    /\ baselinePupilSize' = 0
    /\ pupilSizeHistory' = <<>>
    /\ UNCHANGED calibrationProgress
    /\ concentrationLevel' = 0

\* resetCalibration keeping the history
resetCalibrationKeepsHistory ==
    /\ isCalibrated' = FALSE
    /\ baselinePupilSize' = 0
    /\ UNCHANGED pupilSizeHistory
    /\ calibrationProgress' = 0
    /\ concentrationLevel' = 0

\* resetCalibration keeping the level
resetCalibrationKeepsLevel ==
    /\ isCalibrated' = FALSE
    /\ baselinePupilSize' = 0
    /\ pupilSizeHistory' = <<>>
    /\ calibrationProgress' = 0
    /\ UNCHANGED concentrationLevel

\* resetCalibration halving the level
resetCalibrationHalvesLevel ==
    /\ isCalibrated' = FALSE
    /\ baselinePupilSize' = 0
    /\ pupilSizeHistory' = <<>>
    /\ calibrationProgress' = 0
    /\ concentrationLevel' = concentrationLevel \div 2

\* resetCalibration()
resetCalibration ==
    /\ isCalibrated' = FALSE
    /\ baselinePupilSize' = 0
    /\ pupilSizeHistory' = <<>>
    /\ calibrationProgress' = 0
    /\ concentrationLevel' = 0

\* processFaceDetection without the test of the eyelids
processFaceDetectionIgnoresLids(face) ==
    IF ~face.keypoints THEN UNCHANGED engine
    ELSE LET left  == calculatePupilSize(face, "left")
             right == calculatePupilSize(face, "right")
         IN  IF left > 0 /\ right > 0
             THEN updateConcentration(left, right)
             ELSE /\ concentrationLevel' = smoothValue(concentrationLevel, 0)
                  /\ UNCHANGED <<pupilSizeHistory, calibrationProgress,
                                 isCalibrated, baselinePupilSize>>

\* processFaceDetection(ctx, face)
processFaceDetection(face) ==
    IF ~face.keypoints THEN UNCHANGED engine
    ELSE IF ~isEyeOpen(face, "left") \/ ~isEyeOpen(face, "right")
    THEN resetCurrentMetrics
    ELSE LET left  == calculatePupilSize(face, "left")
             right == calculatePupilSize(face, "right")
         IN  IF left > 0 /\ right > 0
             THEN updateConcentration(left, right)
             ELSE /\ concentrationLevel' = smoothValue(concentrationLevel, 0)
                  /\ UNCHANGED <<pupilSizeHistory, calibrationProgress,
                                 isCalibrated, baselinePupilSize>>

\* ------------------------------------------------------- history variable

\* the average pupil diameter of a face
averageOf(face) ==
    (calculatePupilSize(face, "left") + calculatePupilSize(face, "right")) \div 2

\* the frame is one whose sample the tracker accepts: both eyes open, both
\* diameters positive, the average within the pupil bounds
isAccepted(d) ==
    /\ d.kind = "face"
    /\ d.face.keypoints
    /\ isEyeOpen(d.face, "left") /\ isEyeOpen(d.face, "right")
    /\ calculatePupilSize(d.face, "left") > 0
    /\ calculatePupilSize(d.face, "right") > 0
    /\ averageOf(d.face) >= config.minPupilSize
    /\ averageOf(d.face) <= config.maxPupilSize

\* an eye of the face is not open
isShut(face) == ~isEyeOpen(face, "left") \/ ~isEyeOpen(face, "right")

\* both eyes are open and the average pupil diameter is invalid: a diameter
\* is 0, or the average is outside the pupil bounds
isInvalidDiameter(face) ==
    /\ ~isShut(face)
    /\ \/ calculatePupilSize(face, "left") = 0
       \/ calculatePupilSize(face, "right") = 0
       \/ averageOf(face) <= 0
       \/ averageOf(face) < config.minPupilSize
       \/ averageOf(face) > config.maxPupilSize

\* the kind of a detection result
frameKind(d) ==
    IF d.kind # "face" THEN d.kind
    ELSE IF ~d.face.keypoints THEN "nokeypoints"
    ELSE IF isShut(d.face) THEN "shut"
    ELSE IF isInvalidDiameter(d.face) THEN "invalid"
    ELSE "sample"

\* ---------------------------------------------------------------- the loop

\* live detection loops: pending animation-frame callbacks and calls in flight
Loops == (IF rafCur THEN 1 ELSE 0) + rafStale + inflight

\* this.animationId = requestAnimationFrame(...), with cur and stale pending
requestAnimationFrame(cur, stale) ==
    /\ rafCur' = TRUE
    /\ rafStale' = stale + (IF cur THEN 1 ELSE 0)

\* startDetection without the test of isTracking
startDetectionWhileStopped(tracking, ready, cur, stale) ==
    IF ~detector
    THEN /\ rafCur' = cur
         /\ rafStale' = stale
         /\ UNCHANGED inflight
    ELSE IF ~ready
    THEN /\ requestAnimationFrame(cur, stale)
         /\ UNCHANGED inflight
    ELSE /\ rafCur' = cur
         /\ rafStale' = stale
         /\ inflight' = inflight + 1

\* startDetection() up to its await: tracking is this.isTracking at the call,
\* ready says that the frame interval has elapsed and the video has data
startDetection(tracking, ready, cur, stale) ==
    IF ~detector \/ ~tracking
    THEN /\ rafCur' = cur
         /\ rafStale' = stale
         /\ UNCHANGED inflight
    ELSE IF ~ready
    THEN /\ requestAnimationFrame(cur, stale)
         /\ UNCHANGED inflight
    ELSE /\ rafCur' = cur
         /\ rafStale' = stale
         /\ inflight' = inflight + 1

\* ------------------------------------------------------------------ actions

\* no call of calculateConcentrationScore was made yet
NoCall ==
    [fn |-> "none", sensitivity |-> 0, dilationRatio |-> 0, variability |-> 0,
     stability |-> 0, dilationScore |-> 0, stabilityScore |-> 0, result |-> 0]

\* recalibrate() was not called yet in a tracking session
NoSession ==
    [noted |-> FALSE, isCalibrated |-> FALSE, baselinePupilSize |-> 0,
     accepted |-> <<>>]

\* no call of startDetection() was made yet
NoTick ==
    [seen |-> FALSE, byLoop |-> FALSE, early |-> FALSE, started |-> FALSE,
     alive |-> FALSE, rescheduled |-> FALSE, same |-> TRUE]

\* no run was noted
NoReplay == [run |-> 1, trace |-> <<>>, sessions |-> <<>>, times |-> <<>>,
             at |-> 0, shifted |-> FALSE]

\* the page has just loaded: lastDetectionTime is 0 and no detection started
\* this.metrics as declared
InitialMetrics ==
    [level |-> 0, isCalibrated |-> FALSE, calibrationProgress |-> 0]

NoClock ==
    [now |-> 0, lastDetectionTime |-> 0, startedOnce |-> FALSE,
     lastStart |-> 0, tick |-> NoTick]

Init ==
    /\ concentrationLevel = 0
    /\ isTracking = FALSE
    /\ isCalibrated = FALSE
    /\ calibrationProgress = 0
    /\ baselinePupilSize = 0
    /\ pupilSizeHistory = <<>>
    /\ config = InitialConfig
    /\ detector = FALSE
    /\ metaArmed = FALSE
    /\ rafCur = FALSE
    /\ rafStale = 0
    /\ inflight = 0
    /\ frames = 0
    /\ accepted = <<>>
    /\ lastEvent = ""
    /\ call = NoCall
    /\ before = NoSession
    /\ clock = NoClock
    /\ replay = NoReplay
    /\ metrics = InitialMetrics

\* startTracking(): the model loads or not, the camera opens or not
StartTracking(modelLoads, cameraOpens) ==
    /\ detector' = (detector \/ modelLoads)
    /\ metaArmed' = (metaArmed \/ (detector' /\ cameraOpens))
    /\ UNCHANGED <<engine, isTracking, config, loop, frames, accepted,
                   lastEvent, study>>

\* video.onloadedmetadata, set by startTracking()
OnLoadedMetadataCore(ready) ==
    /\ metaArmed
    /\ Loops < MaxLoops
    /\ metaArmed' = FALSE
    /\ isTracking' = TRUE
    /\ resetCalibration
    /\ accepted' = <<>>
    /\ startDetection(TRUE, ready, rafCur, rafStale)
    /\ UNCHANGED <<config, detector, frames, lastEvent>>

OnLoadedMetadata(ready) == OnLoadedMetadataCore(ready) /\ UNCHANGED study

\* a pending animation-frame callback runs startDetection()
AnimationFrame(current, ready) ==
    /\ IF current THEN rafCur ELSE rafStale > 0
    /\ IF current
       THEN startDetection(isTracking, ready, FALSE, rafStale)
       ELSE startDetection(isTracking, ready, rafCur, rafStale - 1)
    /\ UNCHANGED <<engine, isTracking, config, detector, metaArmed, frames,
                   accepted, lastEvent, study>>

\* startDetection without the catch: a throw of estimateFaces ends the call
EstimateFacesDoneUncaught(d) ==
    /\ inflight > 0
    /\ frames < MaxFrames
    /\ frames' = frames + 1
    /\ inflight' = inflight - 1
    /\ CASE d.kind = "throw" -> UNCHANGED engine
         [] d.kind = "none"  -> resetCurrentMetrics
         [] d.kind = "face"  -> processFaceDetection(d.face)
    /\ IF d.kind = "throw" THEN UNCHANGED <<rafCur, rafStale>>
       ELSE requestAnimationFrame(rafCur, rafStale)
    /\ lastEvent' = frameKind(d)
    /\ accepted' = IF isAccepted(d) THEN Append(accepted, averageOf(d.face))
                   ELSE accepted
    /\ UNCHANGED <<isTracking, config, detector, metaArmed>>

\* startDetection() from the await on: estimateFaces resolved or threw
EstimateFacesDoneCore(d) ==
    /\ inflight > 0
    /\ frames < MaxFrames
    /\ frames' = frames + 1
    /\ inflight' = inflight - 1
    /\ CASE d.kind = "throw" -> UNCHANGED engine
         [] d.kind = "none"  -> resetCurrentMetrics
         [] d.kind = "face"  -> processFaceDetection(d.face)
    /\ requestAnimationFrame(rafCur, rafStale)
    /\ lastEvent' = frameKind(d)
    /\ accepted' = IF isAccepted(d) THEN Append(accepted, averageOf(d.face))
                   ELSE accepted
    /\ UNCHANGED <<isTracking, config, detector, metaArmed>>

EstimateFacesDone(d) == EstimateFacesDoneCore(d) /\ UNCHANGED study

\* recalibrate without the test of isTracking
RecalibrateUnguarded ==
    /\ resetCalibration /\ accepted' = <<>>
    /\ lastEvent' = "recalibrate"
    /\ UNCHANGED <<isTracking, config, detector, metaArmed, loop, frames,
                   study>>

\* recalibrate()
RecalibrateCore ==
    /\ IF ~isTracking
       THEN UNCHANGED <<engine, accepted>>
       ELSE resetCalibration /\ accepted' = <<>>
    /\ lastEvent' = "recalibrate"
    /\ UNCHANGED <<isTracking, config, detector, metaArmed, loop, frames>>

Recalibrate == RecalibrateCore /\ UNCHANGED study

\* stopTracking(), also ngOnDestroy()
StopTrackingCore ==
    /\ rafCur' = FALSE
    /\ metaArmed' = FALSE
    /\ isTracking' = FALSE
    /\ resetCalibration
    /\ accepted' = <<>>
    /\ UNCHANGED <<config, detector, rafStale, inflight, frames, lastEvent>>

StopTracking == StopTrackingCore /\ UNCHANGED study

\* the arguments tried for the three config setters: each is outside the
\* setter's range, below it for the sensitivity and the frame rate, above
\* it for the smoothing
SensitivityInputs == {0}

SmoothingInputs == {12 * FP}

FrameRateInputs == {10}

\* updateSensitivity without the lower limit
UpdateSensitivityNoLowerLimit(sensitivity) ==
    /\ config' = [config EXCEPT !.sensitivity = Min(5 * FP, sensitivity)]
    /\ UNCHANGED <<engine, isTracking, detector, metaArmed, loop, frames,
                   accepted, lastEvent, study>>

\* updateSensitivity(sensitivity)
UpdateSensitivity(sensitivity) ==
    /\ config' = [config EXCEPT !.sensitivity =
                      Max(FP \div 10, Min(5 * FP, sensitivity))]
    /\ UNCHANGED <<engine, isTracking, detector, metaArmed, loop, frames,
                   accepted, lastEvent, study>>

\* updateSmoothing(smoothing)
UpdateSmoothing(smoothing) ==
    /\ config' = [config EXCEPT !.smoothingFactor =
                      Max(FP \div 10, Min((9 * FP) \div 10, smoothing \div 10))]
    /\ UNCHANGED <<engine, isTracking, detector, metaArmed, loop, frames,
                   accepted, lastEvent, study>>

\* updateFrameRate(frameRate)
UpdateFrameRate(frameRate) ==
    /\ config' = [config EXCEPT !.frameRate = Max(15, Min(60, frameRate))]
    /\ UNCHANGED <<engine, isTracking, detector, metaArmed, loop, frames,
                   accepted, lastEvent, study>>

Frame == \E d \in Detections : EstimateFacesDone(d)

ConfigUpdate ==
    \/ \E x \in SensitivityInputs : UpdateSensitivity(x)
    \/ \E x \in SmoothingInputs : UpdateSmoothing(x)
    \/ \E x \in FrameRateInputs : UpdateFrameRate(x)

Next ==
    \/ \E m, c \in BOOLEAN : StartTracking(m, c)
    \/ \E r \in BOOLEAN : OnLoadedMetadata(r)
    \/ \E cur, r \in BOOLEAN : AnimationFrame(cur, r)
    \/ Frame
    \/ Recalibrate
    \/ StopTracking
    \/ ConfigUpdate

Spec == Init /\ [][Next]_vars

\* ---------------------------------------------------- the score on its own

\* the dilation ratios tried: a grid from 0 up, and the largest ratio that two
\* valid sizes can have
RatioStep == FP \div 20

MaxRatioSteps == 30

Ratios ==
    {i * RatioStep : i \in 0..MaxRatioSteps}
    \cup {(maxPupilSize * FP) \div minPupilSize}

\* the variabilities tried: a grid over [0,1], the range of
\* calculatePupilVariability
VariabilitySteps == 4

Variabilities == {(i * FP) \div VariabilitySteps : i \in 0..VariabilitySteps}

\* the stabilities tried, within [0,1], the range of calculateStability
Stabilities == {0, FP \div 2, FP}

\* the arguments tried for updateSensitivity: they give 0.1, 2 and 5
ScoreSensitivities == {0, 2 * FP, 9 * FP}

\* a call calculateConcentrationScore(dilationRatio, variability, stability)
CalculateConcentrationScore(dilationRatio, variability, stability) ==
    /\ call' = [fn             |-> "calculateConcentrationScore",
                sensitivity    |-> config.sensitivity,
                dilationRatio  |-> dilationRatio,
                variability    |-> variability,
                stability      |-> stability,
                dilationScore  |-> dilationScoreOf(dilationRatio),
                stabilityScore |-> stabilityScoreOf(variability),
                result         |-> calculateConcentrationScore(
                                       dilationRatio, variability, stability)]
    /\ UNCHANGED <<engine, isTracking, config, detector, metaArmed, loop,
                   frames, accepted, lastEvent, before, clock,
                   replay, metrics>>

ScoreNext ==
    \/ \E r \in Ratios, v \in Variabilities, s \in Stabilities :
           CalculateConcentrationScore(r, v, s)
    \/ \E x \in ScoreSensitivities : UpdateSensitivity(x)

ScoreSpec == Init /\ [][ScoreNext]_vars

\* ------------------------------------------------- recalibrating a session

\* tracking has started: startTracking() has loaded the model and opened the
\* camera, the metadata callback has run and its estimateFaces is in flight
Started ==
    /\ concentrationLevel = 0
    /\ isCalibrated = FALSE
    /\ calibrationProgress = 0
    /\ baselinePupilSize = 0
    /\ pupilSizeHistory = <<>>
    /\ config = InitialConfig
    /\ isTracking = TRUE
    /\ detector = TRUE
    /\ metaArmed = FALSE
    /\ rafCur = FALSE
    /\ rafStale = 0
    /\ inflight = 1
    /\ frames = 0
    /\ accepted = <<>>
    /\ lastEvent = ""
    /\ call = NoCall
    /\ before = NoSession
    /\ clock = NoClock
    /\ replay = NoReplay
    /\ metrics = InitialMetrics

\* the frames fed to a session and fed again after recalibrate(): samples of
\* 2 (= minPupilSize), 3 and 4, a closed eye, and no face
RoundTripDetections ==
    { [kind |-> "face",
       face |-> Face(TRUE, RefinedLandmarks, OpenLid, OpenLid, p[1], p[2])] :
         p \in { <<Iris(2), Iris(2)>>, <<Iris(2), OvalIris>>,
                 <<OvalIris, OvalIris>> } }
    \cup { [kind |-> "face",
            face |-> Face(TRUE, RefinedLandmarks, ThresholdLid, OpenLid,
                          OvalIris, OvalIris)],
           [kind |-> "none", face |-> AnyFace] }

\* recalibrate() in a tracking session, which is noted as it was, to be
\* compared with the session that follows; the count of frames starts again
RecalibrateNoting ==
    /\ isTracking
    /\ ~before.noted
    /\ before' = [noted             |-> TRUE,
                  isCalibrated      |-> isCalibrated,
                  baselinePupilSize |-> baselinePupilSize,
                  accepted          |-> accepted]
    /\ resetCalibration
    /\ accepted' = <<>>
    /\ lastEvent' = "recalibrate"
    /\ frames' = 0
    /\ UNCHANGED <<isTracking, config, detector, metaArmed, loop, call,
                   clock, replay, metrics>>

RoundTripNext ==
    \/ AnimationFrame(TRUE, TRUE)
    \/ \E d \in RoundTripDetections : EstimateFacesDone(d)
    \/ RecalibrateNoting

RoundTripSpec == Started /\ [][RoundTripNext]_vars

\* ------------------------------------------------------ the config setters

\* the arguments tried for the three setters: below, at, within, at and above
\* the limits of each
ConfigSensitivities ==
    {0 - 5 * FP, 0, FP \div 10, FP, 2 * FP, 3 * FP, 4 * FP, 5 * FP, 5 * FP + 1,
     100 * FP}

ConfigSmoothings ==
    {0 - 10 * FP, 0, FP, 3 * FP, 5 * FP, 7 * FP, 9 * FP, 9 * FP + 1, 1000 * FP}

ConfigFrameRates == {0 - 1, 0, 14, 15, 20, 30, 45, 60, 61, 1000}

ConfigNext ==
    \/ \E x \in ConfigSensitivities : UpdateSensitivity(x)
    \/ \E x \in ConfigSmoothings : UpdateSmoothing(x)
    \/ \E x \in ConfigFrameRates : UpdateFrameRate(x)

ConfigSpec == Init /\ [][ConfigNext]_vars

\* -------------------------------------------------- the geometry on its own

\* a keypoint the array does not hold, and one it holds at (x, y)
NoPoint == [defined |-> FALSE, x |-> 0, y |-> 0]

Point(x, y) == [defined |-> TRUE, x |-> x, y |-> y]

\* the indices of the landmarks isEyeOpen and calculatePupilSize read
eyeLidIndices(side) ==
    IF side = "left"
    THEN [top |-> 159, bottom |-> 145, left |-> 33, right |-> 133]
    ELSE [top |-> 386, bottom |-> 374, left |-> 362, right |-> 263]

irisIndices(side) ==
    IF side = "left"
    THEN [top |-> 474, bottom |-> 476, left |-> 477, right |-> 475]
    ELSE [top |-> 469, bottom |-> 471, left |-> 472, right |-> 470]

\* the four landmarks read of one eye: whether none is missing, and the
\* distances between top and bottom and between left and right
measure(top, bottom, left, right) ==
    IF top.defined /\ bottom.defined /\ left.defined /\ right.defined
    THEN Landmarks(TRUE,
                   hypot(top.x - bottom.x, top.y - bottom.y),
                   hypot(left.x - right.x, left.y - right.y))
    ELSE Landmarks(FALSE, 0, 0)

\* the keypoints arrays tried: none at all, or one of a length around 478
\* holding the four landmarks pts at the indices idx, where an index past
\* the end of the array holds nothing
KeypointCounts == {RefinedLandmarks - 1, RefinedLandmarks, RefinedLandmarks + 1}

isArray(kp, n, idx, pts) ==
    /\ kp => n \in KeypointCounts
    /\ ~kp => n = 0
    /\ \A k \in {"top", "bottom", "left", "right"} :
           idx[k] >= n => ~pts[k].defined

TopPoints == {NoPoint, Point(5, 0)}

BottomPoints == {NoPoint, Point(5, 0), Point(5, 1), Point(5, 2), Point(8, 4)}

LeftPoints == {NoPoint, Point(0, 0)}

RightPoints == {NoPoint, Point(0, 0), Point(10, 0), Point(10, 1), Point(40, 0)}

FourPoints ==
    [top : TopPoints, bottom : BottomPoints,
     left : LeftPoints, right : RightPoints]

\* a call isEyeOpen(keypoints, side) where the array holds pts as the four
\* eyelid landmarks of that side
IsEyeOpen(kp, n, side, pts) ==
    /\ isArray(kp, n, eyeLidIndices(side), pts)
    /\ LET lid  == [s \in {"left", "right"} |->
                       IF s = side
                       THEN measure(pts.top, pts.bottom, pts.left, pts.right)
                       ELSE MissingLid]
           face == Face(kp, n, lid.left, lid.right, MissingIris, MissingIris)
       IN  call' = [fn |-> "isEyeOpen", keypoints |-> kp, count |-> n,
                    side |-> side, pts |-> pts,
                    result |-> isEyeOpen(face, side)]
    /\ UNCHANGED <<engine, isTracking, config, detector, metaArmed, loop,
                   frames, accepted, lastEvent, before, clock,
                   replay, metrics>>

\* a call calculatePupilSize(keypoints, side) where the array holds pts as
\* the four iris landmarks of that side
CalculatePupilSize(kp, n, side, pts) ==
    /\ isArray(kp, n, irisIndices(side), pts)
    /\ LET iris == [s \in {"left", "right"} |->
                       IF s = side
                       THEN measure(pts.top, pts.bottom, pts.left, pts.right)
                       ELSE MissingIris]
           face == Face(kp, n, MissingLid, MissingLid, iris.left, iris.right)
       IN  call' = [fn |-> "calculatePupilSize", keypoints |-> kp,
                    count |-> n, side |-> side, pts |-> pts,
                    result |-> calculatePupilSize(face, side)]
    /\ UNCHANGED <<engine, isTracking, config, detector, metaArmed, loop,
                   frames, accepted, lastEvent, before, clock,
                   replay, metrics>>

GeometryNext ==
    \/ \E kp \in BOOLEAN, n \in KeypointCounts \cup {0},
          side \in {"left", "right"}, pts \in FourPoints :
           IsEyeOpen(kp, n, side, pts)
    \/ \E kp \in BOOLEAN, n \in KeypointCounts \cup {0},
          side \in {"left", "right"}, pts \in FourPoints :
           CalculatePupilSize(kp, n, side, pts)

GeometrySpec == Init /\ [][GeometryNext]_vars

\* ------------------------------------- variability and stability on their own

\* the config as the source has it, with a history of up to 100 samples
SourceConfig ==
    [InitialConfig EXCEPT !.calibrationFrames = 30, !.maxHistorySize = 100]

\* the history lengths tried, around the two windows of 10 and 20
HistoryLengths ==
    {0, VariabilityWindow - 1, VariabilityWindow, VariabilityWindow + 1,
     StabilityWindow - 1, StabilityWindow, StabilityWindow + 1,
     StabilityWindow + 5}

\* the samples tried, all within [minPupilSize, maxPupilSize] as
\* updateConcentration has them before it pushes them
WindowSamples == {2 * FP, 3 * FP, 4 * FP, 20 * FP}

\* a history of n samples: the first old of them a, the last one c, all
\* others b
historyOf(n, old, a, b, c) ==
    [i \in 1..n |-> IF i = n THEN c ELSE IF i <= old THEN a ELSE b]

Histories ==
    { historyOf(n, old, a, b, c) :
          n \in HistoryLengths, old \in {0, 1, 5},
          a \in WindowSamples, b \in WindowSamples, c \in WindowSamples }

\* a tracking session that has pushed one of the histories H and still
\* collects its baseline
Holding(H) ==
    /\ config = SourceConfig
    /\ pupilSizeHistory \in H
    /\ calibrationProgress = progressOf(Len(pupilSizeHistory))
    /\ isCalibrated = FALSE
    /\ baselinePupilSize = 0
    /\ concentrationLevel = 0
    /\ isTracking = TRUE
    /\ detector = TRUE
    /\ metaArmed = FALSE
    /\ rafCur = FALSE
    /\ rafStale = 0
    /\ inflight = 1
    /\ frames = 0
    /\ accepted = pupilSizeHistory
    /\ lastEvent = IF pupilSizeHistory = <<>> THEN "" ELSE "sample"
    /\ call = NoCall
    /\ before = NoSession
    /\ clock = NoClock
    /\ replay = NoReplay
    /\ metrics = InitialMetrics

\* a call calculatePupilVariability()
CalculatePupilVariability ==
    /\ call' = [fn |-> "calculatePupilVariability",
                history |-> pupilSizeHistory,
                result |-> calculatePupilVariability(pupilSizeHistory)]
    /\ UNCHANGED <<engine, isTracking, config, detector, metaArmed, loop,
                   frames, accepted, lastEvent, before, clock,
                   replay, metrics>>

\* a call calculateStability()
CalculateStability ==
    /\ call' = [fn |-> "calculateStability",
                history |-> pupilSizeHistory,
                result |-> calculateStability(pupilSizeHistory)]
    /\ UNCHANGED <<engine, isTracking, config, detector, metaArmed, loop,
                   frames, accepted, lastEvent, before, clock,
                   replay, metrics>>

WindowNext == CalculatePupilVariability \/ CalculateStability

Collecting == Holding(Histories)

WindowSpec == Collecting /\ [][WindowNext]_vars

\* --------------------------------------------- the two functions at mean zero

\* updateConcentration pushes no sample below minPupilSize, so no history of
\* the tracker has a window of mean 0. What the two functions do at mean 0
\* is studied on histories that hold samples of 0 all the same, as the
\* functions would find them if such samples were pushed.
ZeroSamples == {0, 2 * FP, 4 * FP}

ZeroHistories ==
    { historyOf(n, old, a, b, c) :
          n \in HistoryLengths, old \in {0, 1, 5},
          a \in ZeroSamples, b \in ZeroSamples, c \in ZeroSamples }

HoldingZeros == Holding(ZeroHistories)

ZeroMeanSpec == HoldingZeros /\ [][WindowNext]_vars

\* ---------------------------------------------------- the loop on the clock

\* the clock runs up to this time, in ms
MaxTime == 70

\* the times between two events: one display frame at 60 Hz, rounded down
\* and up
TimeSteps == {16, 17}

\* startDetection letting a call through after half the target interval
isDueAfterHalf(timeSinceLastDetection) ==
    2 * timeSinceLastDetection * config.frameRate >= 1000

\* startDetection: timeSinceLastDetection < targetInterval is false, where
\* targetInterval = 1000 / config.frameRate
isDue(timeSinceLastDetection) ==
    timeSinceLastDetection * config.frameRate >= 1000

\* startDetection() up to its await, called at the time clock.now by the
\* loop or by the metadata callback; videoReady says that the canvas has a
\* context and the video has enough data
startDetectionAt(byLoop, tracking, videoReady, cur, stale) ==
    LET alive  == detector /\ tracking
        due    == isDue(clock.now - clock.lastDetectionTime)
        starts == alive /\ due /\ videoReady
        early  == /\ clock.startedOnce
                  /\ (clock.now - clock.lastStart) * config.frameRate < 1000
    IN  /\ startDetection(tracking, due /\ videoReady, cur, stale)
        /\ clock' =
             [now               |-> clock.now,
              lastDetectionTime |-> IF alive /\ due THEN clock.now
                                    ELSE clock.lastDetectionTime,
              startedOnce       |-> clock.startedOnce \/ starts,
              lastStart         |-> IF starts THEN clock.now
                                    ELSE clock.lastStart,
              tick |-> [seen        |-> TRUE,
                        byLoop      |-> byLoop,
                        early       |-> early,
                        started     |-> inflight' = inflight + 1,
                        alive       |-> alive,
                        rescheduled |-> rafCur' /\ inflight' = inflight,
                        same        |-> engine' = engine]]

\* time passes
Advance(dt) ==
    /\ clock.now + dt <= MaxTime
    /\ clock' = [clock EXCEPT !.now = @ + dt]
    /\ UNCHANGED <<engine, isTracking, config, detector, metaArmed, loop,
                   frames, accepted, lastEvent, call, before, replay, metrics>>

\* video.onloadedmetadata, at the time clock.now
OnLoadedMetadataAt(videoReady) ==
    /\ metaArmed
    /\ Loops < MaxLoops
    /\ metaArmed' = FALSE
    /\ isTracking' = TRUE
    /\ resetCalibration
    /\ accepted' = <<>>
    /\ startDetectionAt(FALSE, TRUE, videoReady, rafCur, rafStale)
    /\ UNCHANGED <<config, detector, frames, lastEvent, call, before,
                   replay, metrics>>

\* a pending animation-frame callback runs startDetection() at the time
\* clock.now
AnimationFrameAt(current, videoReady) ==
    /\ IF current THEN rafCur ELSE rafStale > 0
    /\ UNCHANGED <<engine, isTracking, config, detector, metaArmed, frames,
                   accepted, lastEvent, call, before, replay, metrics>>
    /\ IF current
       THEN startDetectionAt(TRUE, isTracking, videoReady, FALSE, rafStale)
       ELSE startDetectionAt(TRUE, isTracking, videoReady, rafCur,
                             rafStale - 1)

\* the frames of a session on the clock: a sample of 4 and no face
GateDetections ==
    { [kind |-> "face",
       face |-> Face(TRUE, RefinedLandmarks, OpenLid, OpenLid,
                     OvalIris, OvalIris)],
      [kind |-> "none", face |-> AnyFace] }

\* the arguments tried for updateFrameRate: they give 15 and 60
GateFrameRates == {10, 60}

GateNext ==
    \/ \E dt \in TimeSteps : Advance(dt)
    \/ StartTracking(TRUE, TRUE)
    \/ \E r \in BOOLEAN : OnLoadedMetadataAt(r)
    \/ \E cur, r \in BOOLEAN : AnimationFrameAt(cur, r)
    \/ \E d \in GateDetections : EstimateFacesDone(d)
    \/ StopTracking
    \/ \E x \in GateFrameRates : UpdateFrameRate(x)

GateSpec == Init /\ [][GateNext]_vars

\* ------------------------------------------------ two runs of the same frames

\* the session: what the frames and commands of a run leave behind
session ==
    [concentrationLevel  |-> concentrationLevel,
     isCalibrated        |-> isCalibrated,
     calibrationProgress |-> calibrationProgress,
     baselinePupilSize   |-> baselinePupilSize,
     pupilSizeHistory    |-> pupilSizeHistory]

\* the frames of the two runs: samples of 3 and 4, and no face
TimingDetections ==
    { [kind |-> "face",
       face |-> Face(TRUE, RefinedLandmarks, OpenLid, OpenLid, p[1], p[2])] :
         p \in { <<Iris(2), OvalIris>>, <<OvalIris, OvalIris>> } }
    \cup { [kind |-> "none", face |-> AnyFace] }

\* a run begins: the component tracks at 60 frames per second, its loop has
\* one callback pending, and the clock is at 0
RunBegins ==
    /\ concentrationLevel = 0
    /\ isCalibrated = FALSE
    /\ calibrationProgress = 0
    /\ baselinePupilSize = 0
    /\ pupilSizeHistory = <<>>
    /\ config = [InitialConfig EXCEPT !.frameRate = 60]
    /\ isTracking = TRUE
    /\ detector = TRUE
    /\ metaArmed = FALSE
    /\ rafCur = TRUE
    /\ rafStale = 0
    /\ inflight = 0
    /\ frames = 0
    /\ accepted = <<>>
    /\ lastEvent = ""
    /\ call = NoCall
    /\ before = NoSession
    /\ clock = NoClock
    /\ replay = NoReplay
    /\ metrics = InitialMetrics

\* the first run notes the frame or command e, the session after it and the
\* time; the second run is given e only where the first run had it. Two
\* runs that each agree with the first run agree with each other.
Noted(e) ==
    IF replay.run = 1
    THEN /\ Len(replay.trace) < MaxFrames
         /\ replay' = [replay EXCEPT !.trace    = Append(@, e),
                                     !.sessions = Append(@, session'),
                                     !.times    = Append(@, clock.now)]
    ELSE /\ replay.at < Len(replay.trace)
         /\ e = replay.trace[replay.at + 1]
         /\ replay' = [replay EXCEPT
                          !.at      = @ + 1,
                          !.shifted = @ \/ clock.now # replay.times[replay.at + 1]]

\* estimateFaces resolves in one of the two runs
EstimateFacesDoneNoted(d) ==
    /\ EstimateFacesDoneCore(d)
    /\ Noted([command |-> "frame", d |-> d])
    /\ UNCHANGED <<call, before, clock, metrics>>

\* recalibrate() in one of the two runs
RecalibrateNoted ==
    /\ RecalibrateCore
    /\ Noted([command |-> "recalibrate", d |-> [kind |-> "none", face |-> AnyFace]])
    /\ UNCHANGED <<call, before, clock, metrics>>

\* the first run is over between two frames and the second run begins, with
\* a new component and the clock at 0 again
SecondRunBegins ==
    /\ replay.run = 1
    /\ replay.trace # <<>>
    /\ inflight = 0
    /\ replay' = [replay EXCEPT !.run = 2]
    /\ resetCalibration
    /\ rafCur' = TRUE
    /\ rafStale' = 0
    /\ frames' = 0
    /\ accepted' = <<>>
    /\ lastEvent' = ""
    /\ clock' = NoClock
    /\ UNCHANGED <<isTracking, config, detector, metaArmed, inflight, call,
                   before, metrics>>

\* time passes: in the first run, whose frames are evenly spaced, by 17 ms
\* whenever the loop waits for its interval; in the second run at will
Wait(dt) ==
    /\ replay.run = 1
         => /\ dt = 17
            /\ inflight = 0
            /\ ~isDue(clock.now - clock.lastDetectionTime)
    /\ Advance(dt)

TimingNext ==
    \/ \E dt \in TimeSteps : Wait(dt)
    \/ AnimationFrameAt(TRUE, TRUE)
    \/ \E d \in TimingDetections : EstimateFacesDoneNoted(d)
    \/ RecalibrateNoted
    \/ SecondRunBegins

TimingSpec == RunBegins /\ [][TimingNext]_vars

\* ------------------------------------------------------ the loop winding down

\* the outcomes of estimateFaces tried: a sample of 4, no face and a throw
StopDetections ==
    GateDetections \cup {[kind |-> "throw", face |-> AnyFace]}

\* a detection starts only while the frames done and in flight are fewer than
\* MaxFrames, so that every call in flight can be completed
mayStart(ready) == ready => frames + inflight < MaxFrames

\* video.onloadedmetadata, set by startTracking()
OnLoadedMetadataFair(ready) == mayStart(ready) /\ OnLoadedMetadata(ready)

\* a pending animation-frame callback runs startDetection()
AnimationFrameFair(current, ready) ==
    mayStart(ready) /\ AnimationFrame(current, ready)

\* the browser runs the callback whose id is this.animationId
CurrentFrameRuns == \E r \in BOOLEAN : AnimationFrameFair(TRUE, r)

\* the browser runs a callback whose id was overwritten
StaleFrameRuns == \E r \in BOOLEAN : AnimationFrameFair(FALSE, r)

\* the promise of estimateFaces settles
EstimateFacesSettles == \E d \in StopDetections : EstimateFacesDone(d)

StopNext ==
    \/ \E m, c \in BOOLEAN : StartTracking(m, c)
    \/ \E r \in BOOLEAN : OnLoadedMetadataFair(r)
    \/ CurrentFrameRuns
    \/ StaleFrameRuns
    \/ EstimateFacesSettles
    \/ Recalibrate
    \/ StopTracking

\* every requested animation frame that is not cancelled is run, and every
\* call of estimateFaces settles
StopSpec ==
    /\ Init /\ [][StopNext]_vars
    /\ WF_vars(CurrentFrameRuns)
    /\ WF_vars(StaleFrameRuns)
    /\ WF_vars(EstimateFacesSettles)

\* -------------------------------------------------------------- the metrics

\* updateMetrics(): called last on each path of updateConcentration, it copies
\* the level and isCalibrated; calibrationProgress is not among the fields
\* it writes
updateMetrics ==
    metrics' = [metrics EXCEPT !.level = concentrationLevel',
                               !.isCalibrated = isCalibrated']

\* resetCalibration(): this.metrics.isCalibrated = false
resetCalibrationOfMetrics ==
    metrics' = [metrics EXCEPT !.isCalibrated = FALSE]

\* processFaceDetection() reaches updateConcentration(): keypoints, both eyes
\* open, both diameters positive
reachesUpdateConcentration(d) ==
    /\ d.kind = "face"
    /\ d.face.keypoints
    /\ ~isShut(d.face)
    /\ calculatePupilSize(d.face, "left") > 0
    /\ calculatePupilSize(d.face, "right") > 0

\* the outcomes of estimateFaces tried: those of StopDetections, an average
\* below minPupilSize, a diameter of 0 and a shut eye
MetricsDetections ==
    StopDetections
    \cup { [kind |-> "face",
            face |-> Face(TRUE, RefinedLandmarks, OpenLid, OpenLid,
                          Iris(1), Iris(2))],
           [kind |-> "face",
            face |-> Face(TRUE, RefinedLandmarks, OpenLid, OpenLid,
                          Iris(3), Iris(0))],
           [kind |-> "face",
            face |-> Face(TRUE, RefinedLandmarks, ThresholdLid, OpenLid,
                          OvalIris, OvalIris)] }

\* video.onloadedmetadata, set by startTracking()
OnLoadedMetadataWithMetrics(ready) ==
    /\ OnLoadedMetadataCore(ready)
    /\ resetCalibrationOfMetrics
    /\ UNCHANGED <<call, before, clock, replay>>

\* startDetection() from the await on
EstimateFacesDoneWithMetrics(d) ==
    /\ EstimateFacesDoneCore(d)
    /\ IF reachesUpdateConcentration(d) THEN updateMetrics
       ELSE UNCHANGED metrics
    /\ UNCHANGED <<call, before, clock, replay>>

\* recalibrate()
RecalibrateWithMetrics ==
    /\ RecalibrateCore
    /\ IF isTracking THEN resetCalibrationOfMetrics ELSE UNCHANGED metrics
    /\ UNCHANGED <<call, before, clock, replay>>

\* stopTracking()
StopTrackingWithMetrics ==
    /\ StopTrackingCore
    /\ resetCalibrationOfMetrics
    /\ UNCHANGED <<call, before, clock, replay>>

MetricsNext ==
    \/ \E m, c \in BOOLEAN : StartTracking(m, c)
    \/ \E r \in BOOLEAN : OnLoadedMetadataWithMetrics(r)
    \/ \E cur, r \in BOOLEAN : AnimationFrame(cur, r)
    \/ \E d \in MetricsDetections : EstimateFacesDoneWithMetrics(d)
    \/ RecalibrateWithMetrics
    \/ StopTrackingWithMetrics

MetricsSpec == Init /\ [][MetricsNext]_vars

\* ------------------------------------------------------------------- claims

\* the steps that reset the session: recalibrate() while tracking, a start
\* (the metadata callback of startTracking) and stopTracking()
ResetStep ==
    \/ Recalibrate
    \/ StopTracking
    \/ \E r \in BOOLEAN : OnLoadedMetadata(r)

\* the step processes a frame of kind k (EstimateFacesDone counts the frame
\* and records its kind)
FrameOfKind(k) == frames' = frames + 1 /\ lastEvent' = k

\* the step processes a frame
FrameStep == frames' = frames + 1

\* C1: in every reachable state concentrationLevel is within [0,100].
C1_LevelInRange ==
    concentrationLevel >= 0 /\ concentrationLevel <= 100 * FP

\* C1 witness: a scored level above 60 after the smoothing factor was changed
C1_Witness ==
    /\ isCalibrated
    /\ concentrationLevel > 60 * FP
    /\ config.smoothingFactor # InitialConfig.smoothingFactor

\* C2: in every reachable state baselinePupilSize > 0 iff isCalibrated.
C2_BaselineIffCalibrated ==
    (baselinePupilSize > 0) <=> isCalibrated

\* C2 witness: a calibrated session, its baseline the mean of two samples
C2_Witness ==
    /\ isCalibrated
    /\ baselinePupilSize > 3 * FP
    /\ baselinePupilSize < 4 * FP

\* C3: pupilSizeHistory never holds more than maxHistorySize entries and is
\* exactly the most recent min(n, maxHistorySize) of the n samples accepted
\* since the last reset, in arrival order.
C3_HistoryIsRecentSamples ==
    /\ Len(pupilSizeHistory) <= config.maxHistorySize
    /\ pupilSizeHistory =
           LastK(accepted, Min(Len(accepted), config.maxHistorySize))

\* C3 witness: more samples were accepted than the history holds, and the
\* evicted one differs from those kept
C3_Witness ==
    /\ Len(accepted) > config.maxHistorySize
    /\ Len(pupilSizeHistory) = config.maxHistorySize
    /\ accepted[1] # accepted[2]
    /\ accepted[Len(accepted)] # accepted[1]

\* C9: in every reachable state calibrationProgress equals
\* min(100, pupilSizeHistory.length / calibrationFrames * 100), within [0,100].
C9_ProgressFormula ==
    /\ calibrationProgress =
           Min(100 * FP,
               (Len(pupilSizeHistory) * 100 * FP) \div config.calibrationFrames)
    /\ calibrationProgress >= 0
    /\ calibrationProgress <= 100 * FP

\* C9 witness: the cap applies (more samples than calibrationFrames)
C9_Witness ==
    /\ Len(pupilSizeHistory) > config.calibrationFrames
    /\ calibrationProgress = 100 * FP

\* C4: a frame whose average pupil diameter is invalid leaves the history,
\* the baseline and isCalibrated unchanged and sets concentrationLevel to
\* previous * smoothingFactor + 0 * (1 - smoothingFactor); every element of
\* pupilSizeHistory lies within [minPupilSize, maxPupilSize].
C4_InvalidFrameEffect ==
    /\ [](\A i \in 1..Len(pupilSizeHistory) :
            /\ pupilSizeHistory[i] >= config.minPupilSize
            /\ pupilSizeHistory[i] <= config.maxPupilSize)
    /\ [][FrameOfKind("invalid")
            => /\ UNCHANGED <<pupilSizeHistory, baselinePupilSize, isCalibrated>>
               /\ concentrationLevel' =
                      (concentrationLevel * config.smoothingFactor) \div FP]_vars

\* C4 witness: an invalid-diameter frame has decayed a positive level (a
\* scored level is at least 30 * (1 - 0.9) = 3, so this one was decayed)
C4_Witness ==
    /\ lastEvent = "invalid"
    /\ isCalibrated
    /\ concentrationLevel > 0
    /\ concentrationLevel < 3 * FP
    /\ Len(pupilSizeHistory) >= config.calibrationFrames

\* C5 (as claimed): after calibrationFrames identical valid samples d from a
\* fresh reset, for every d within [minPupilSize, maxPupilSize], the session
\* is calibrated with baselinePupilSize = d.
C5_IdenticalSamplesCalibrate ==
    (/\ Len(accepted) = config.calibrationFrames
     /\ \A i \in 1..Len(accepted) : accepted[i] = accepted[1])
    => (isCalibrated /\ baselinePupilSize = accepted[1])

\* C6: once calibrated, isCalibrated stays true and baselinePupilSize keeps
\* its value across every frame and config update; only recalibrate, start
\* or stop change them.
C6_CalibrationIsStable ==
    [][(isCalibrated /\ ~ResetStep)
       => (isCalibrated' /\ baselinePupilSize' = baselinePupilSize)]_vars

\* C6 witness: a calibrated session that went on to accept samples, evicted
\* one from its calibration window and had its config changed
C6_Witness ==
    /\ isCalibrated
    /\ Len(accepted) > config.maxHistorySize
    /\ accepted[1] # accepted[config.calibrationFrames + 1]
    /\ config.sensitivity # InitialConfig.sensitivity

\* C7 (as claimed): if calibration has not succeeded when the history holds
\* calibrationFrames samples, isCalibrated stays false on every later frame
\* until recalibrate, start or stop.
C7_CalibrationNotRetried ==
    [][(/\ ~isCalibrated
        /\ Len(pupilSizeHistory) >= config.calibrationFrames
        /\ ~ResetStep)
       => ~isCalibrated']_vars

\* C8 (as claimed): while uncalibrated, calibrationProgress never decreases
\* from one frame to the next, and immediately after recalibrate() it is 0.
C8_ProgressMonotoneAndReset ==
    /\ [][(~isCalibrated /\ FrameStep)
            => calibrationProgress' >= calibrationProgress]_vars
    /\ [](lastEvent = "recalibrate" => calibrationProgress = 0)

\* C10: a frame in which isEyeOpen is false for an eye, whatever the iris
\* landmarks, does not raise concentrationLevel and leaves the history, the
\* baseline and isCalibrated unchanged.
C10_ShutEyeNeverRaises ==
    [][FrameOfKind("shut")
          => /\ concentrationLevel' <= concentrationLevel
             /\ UNCHANGED <<pupilSizeHistory, baselinePupilSize, isCalibrated>>]_vars

\* C10 witness: a frame with an eye not open was processed in a calibrated
\* session, whose level it took to 0
C10_Witness ==
    /\ lastEvent = "shut"
    /\ isCalibrated
    /\ Len(pupilSizeHistory) >= config.calibrationFrames
    /\ concentrationLevel = 0

\* C11 (as claimed): on every processed frame, closed-eye and no-face frames
\* included, the new concentrationLevel is previous * smoothingFactor +
\* target * (1 - smoothingFactor) for a target within [0,100]: it lies
\* between the smoothing toward 0 and the smoothing toward 100, so a level
\* is never taken straight to 0.
C11_EveryFrameSmooths ==
    [][FrameStep
          => /\ concentrationLevel' >= smoothValue(concentrationLevel, 0)
             /\ concentrationLevel' <= smoothValue(concentrationLevel, 100 * FP)]_vars

\* two calls of calculateConcentrationScore in a row
TwoCalls ==
    /\ call.fn = "calculateConcentrationScore"
    /\ call'.fn = "calculateConcentrationScore"
    /\ call'.sensitivity = call.sensitivity

\* the dilation ratio from which the dilation score is at its maximum
UpperCap == FP + FP \div 5

\* the dilation ratio down to which the dilation score decreases
LowerFloor == (7 * FP) \div 10

\* C12: a dilation ratio of exactly 1.0 gives a dilation score of exactly 40,
\* before the stability terms and the smoothing.
C12_RatioOneScoresForty ==
    (call.fn = "calculateConcentrationScore" /\ call.dilationRatio = FP)
    => call.dilationScore = 40 * FP

\* C12 witness: a call with ratio 1.0 whose other terms add to the 40
C12_Witness ==
    /\ call.fn = "calculateConcentrationScore"
    /\ call.dilationRatio = FP
    /\ call.variability > 0
    /\ call.stability > 0
    /\ call.result > 40 * FP

\* C13: for every dilation ratio >= 1.3 the dilation score is exactly 60, its
\* maximum, so with the same variability and stability the raw score is the
\* same for all ratios >= 1.3.
C13_CapAtOnePointThree ==
    /\ [](call.fn = "calculateConcentrationScore"
            => /\ call.dilationScore <= 60 * FP
               /\ call.dilationRatio >= (13 * FP) \div 10
                    => call.dilationScore = 60 * FP)
    /\ [][(/\ TwoCalls
           /\ call'.variability = call.variability
           /\ call'.stability = call.stability
           /\ call.dilationRatio >= (13 * FP) \div 10
           /\ call'.dilationRatio >= (13 * FP) \div 10)
          => call'.result = call.result]_vars

\* C13 witness: a call with ratio exactly 1.3 whose raw score is below 100
C13_Witness ==
    /\ call.fn = "calculateConcentrationScore"
    /\ call.dilationRatio = (13 * FP) \div 10
    /\ call.dilationScore = 60 * FP
    /\ call.result < 100 * FP

\* C14: with the same variability and stability, the raw score does not
\* decrease when the dilation ratio grows, it is the same for all ratios from
\* the upper cap on, and the same for all ratios up to the floor of 0.7.
C14_MonotoneInRatio ==
    [][(/\ TwoCalls
        /\ call'.variability = call.variability
        /\ call'.stability = call.stability
        /\ call'.dilationRatio >= call.dilationRatio)
       => /\ call'.result >= call.result
          /\ call.dilationRatio >= UpperCap => call'.result = call.result
          /\ call'.dilationRatio <= LowerFloor => call'.result = call.result]_vars

\* C14 witness: a call between the floor and 1.0, its dilation score strictly
\* between those of the floor and of 1.0
C14_Witness ==
    /\ call.fn = "calculateConcentrationScore"
    /\ call.dilationRatio > LowerFloor
    /\ call.dilationRatio < FP
    /\ call.dilationScore > 0
    /\ call.dilationScore < 40 * FP
    /\ call.result < 100 * FP

\* C15: with the same dilation ratio and stability, the raw score does not
\* grow when the variability grows; the stability score is
\* (1 - min(1, variability * sensitivity)) times its weight, and it is 0
\* whenever variability * sensitivity >= 1.
C15_StabilityTerm ==
    /\ [](call.fn = "calculateConcentrationScore"
            => /\ call.stabilityScore =
                      (FP - Min(FP, (call.variability * call.sensitivity) \div FP))
                         * 30
               /\ call.variability * call.sensitivity >= FP * FP
                    => call.stabilityScore = 0)
    /\ [][(/\ TwoCalls
           /\ call'.dilationRatio = call.dilationRatio
           /\ call'.stability = call.stability
           /\ call'.variability >= call.variability)
          => call'.result <= call.result]_vars

\* C15 witness: a variability below 1 that the sensitivity takes to 1
C15_Witness ==
    /\ call.fn = "calculateConcentrationScore"
    /\ call.variability < FP
    /\ call.variability * call.sensitivity >= FP * FP
    /\ call.stabilityScore = 0
    /\ call.result > 0

\* the raw score of the sample accepted last, in a calibrated session: what
\* updateConcentration passes to smoothValue
rawScore ==
    calculateConcentrationScore(
        (pupilSizeHistory[Len(pupilSizeHistory)] * FP) \div baselinePupilSize,
        calculatePupilVariability(pupilSizeHistory),
        calculateStability(pupilSizeHistory))

\* C16: a valid frame in a calibrated session whose raw score s differs from
\* the previous level takes concentrationLevel strictly between the previous
\* level and s: under repeated frames with the same raw score the level
\* moves toward s from one side and never passes it.
C16_LevelMovesTowardScore ==
    [][(FrameOfKind("sample") /\ isCalibrated')
       => LET s == rawScore'
          IN  /\ concentrationLevel < s
                   => /\ concentrationLevel' > concentrationLevel
                      /\ concentrationLevel' < s
              /\ concentrationLevel > s
                   => /\ concentrationLevel' < concentrationLevel
                      /\ concentrationLevel' > s]_vars

\* C16 witness: a valid frame has taken the level down toward a lower raw
\* score, after an earlier one had raised it
C16_Witness ==
    /\ lastEvent = "sample"
    /\ isCalibrated
    /\ Len(accepted) > config.calibrationFrames
    /\ concentrationLevel > rawScore
    /\ rawScore > 0

\* C17: when recalibrate() is called in a tracking session that a sequence
\* of frames had calibrated with baseline b, and the same sequence is fed
\* again, the session is calibrated with the same baseline b.
C17_RecalibrateRoundTrip ==
    (before.noted /\ before.isCalibrated /\ accepted = before.accepted)
    => (isCalibrated /\ baselinePupilSize = before.baselinePupilSize)

\* C17 witness: the same samples were fed again after recalibrate(), more of
\* them than the calibration takes, the baseline being the mean of unlike ones
C17_Witness ==
    /\ before.noted
    /\ before.isCalibrated
    /\ accepted = before.accepted
    /\ Len(accepted) > config.calibrationFrames
    /\ isCalibrated
    /\ baselinePupilSize # accepted[1]
    /\ baselinePupilSize # accepted[2]

\* the state of the session: Idle when not tracking, Calibrating when
\* tracking and not calibrated, Tracking when tracking and calibrated
Phase ==
    IF ~isTracking THEN "Idle"
    ELSE IF isCalibrated THEN "Tracking" ELSE "Calibrating"

C19_RecalibrateWhileIdle ==
    [][(~isTracking /\ Recalibrate)
       => UNCHANGED <<pupilSizeHistory, baselinePupilSize, isCalibrated,
                      calibrationProgress, concentrationLevel, config,
                      isTracking>>]_vars

\* C19 witness: recalibrate() was called while not tracking and left a
\* history that was not empty
C19_Witness ==
    /\ lastEvent = "recalibrate"
    /\ ~isTracking
    /\ Len(pupilSizeHistory) > 0
    /\ calibrationProgress > 0

\* C20: the state of the session changes only from Idle to Calibrating on a
\* start, from Calibrating to Tracking on a valid frame, from Tracking to
\* Calibrating on recalibrate() or a start, and from any state to Idle on
\* stopTracking(): no frame takes Tracking back to Calibrating and Idle
\* never goes to Tracking.
C20_SessionStateMachine ==
    [][Phase' # Phase
       => \/ /\ Phase = "Idle" /\ Phase' = "Calibrating"
             /\ \E r \in BOOLEAN : OnLoadedMetadata(r)
          \/ /\ Phase = "Calibrating" /\ Phase' = "Tracking"
             /\ FrameOfKind("sample")
          \/ /\ Phase = "Tracking" /\ Phase' = "Calibrating"
             /\ Recalibrate \/ \E r \in BOOLEAN : OnLoadedMetadata(r)
          \/ /\ Phase' = "Idle"
             /\ StopTracking]_vars

\* C20 witness: a session in the state Tracking, calibrated by the samples
\* of its last calibrationFrames frames after earlier frames
C20_Witness ==
    /\ Phase = "Tracking"
    /\ lastEvent = "sample"
    /\ Len(accepted) = config.calibrationFrames
    /\ frames > config.calibrationFrames

\* C21 (as claimed): from stopTracking() until the next start the session is
\* in the Idle form, also when an estimateFaces call that was in flight at
\* the stop completes afterwards: pupilSizeHistory is empty,
\* baselinePupilSize 0, isCalibrated false, calibrationProgress 0 and
\* concentrationLevel 0.
C21_IdleAfterStop ==
    ~isTracking
    => /\ pupilSizeHistory = <<>>
       /\ baselinePupilSize = 0
       /\ isCalibrated = FALSE
       /\ calibrationProgress = 0
       /\ concentrationLevel = 0

MalformedKinds == {"nokeypoints", "shut", "invalid"}

\* C23 (as claimed): a malformed frame leaves pupilSizeHistory,
\* baselinePupilSize and isCalibrated unchanged and moves concentrationLevel
\* toward 0: it is strictly smaller than before whenever it was positive.
C23_MalformedFrameDecays ==
    [][(FrameStep /\ lastEvent' \in MalformedKinds)
       => /\ UNCHANGED <<pupilSizeHistory, baselinePupilSize, isCalibrated>>
          /\ concentrationLevel' <= concentrationLevel
          /\ concentrationLevel > 0
               => concentrationLevel' < concentrationLevel]_vars

\* the samples among the first calibrationFrames of h that lie within
\* [minPupilSize, maxPupilSize], the two bounds included
survivorsWithin(h) ==
    SelectSeq(SubSeq(h, 1, Min(Len(h), config.calibrationFrames)),
              LAMBDA s : s >= config.minPupilSize /\ s <= config.maxPupilSize)

\* C24 (as claimed): on a valid frame with the session uncalibrated and the
\* history at least calibrationFrames long, calibration completes if and
\* only if at least half of the first calibrationFrames samples lie within
\* [minPupilSize, maxPupilSize], bounds included, and the baseline is then
\* the arithmetic mean of exactly those samples.
C24_CalibrationRule ==
    [][(/\ FrameOfKind("sample")
        /\ ~isCalibrated
        /\ Len(pupilSizeHistory') >= config.calibrationFrames)
       => LET s == survivorsWithin(pupilSizeHistory')
          IN  /\ isCalibrated' <=> 2 * Len(s) >= config.calibrationFrames
              /\ isCalibrated' => baselinePupilSize' = SeqSum(s) \div Len(s)]_vars

\* a number held between lo and hi
clamp(x, lo, hi) == Min(hi, Max(lo, x))

\* C25 (as claimed): for every dilation ratio >= 1.0 the dilation score is
\* 40 + clamp((ratio - 1.0) / 0.3, 0, 1) * 20, within [40, 60]; a ratio of
\* 1.15 gives a dilation score of 50.
C25_DilationRiseOverThreeTenths ==
    (call.fn = "calculateConcentrationScore" /\ call.dilationRatio >= FP)
    => /\ call.dilationScore =
              40 * FP + clamp(((call.dilationRatio - FP) * FP)
                                  \div ((3 * FP) \div 10), 0, FP) * 20
       /\ call.dilationScore >= 40 * FP
       /\ call.dilationScore <= 60 * FP
       /\ call.dilationRatio = (115 * FP) \div 100
            => call.dilationScore = 50 * FP

\* C25 (amended): for every dilation ratio >= 1.0 the dilation score is
\* 40 + clamp((ratio - 1.0) / 0.2, 0, 1) * 20, within [40, 60]; a ratio of
\* 1.15 gives a dilation score of 55 and every ratio from 1.2 on gives 60.
C25_DilationRiseOverTwoTenths ==
    (call.fn = "calculateConcentrationScore" /\ call.dilationRatio >= FP)
    => /\ call.dilationScore =
              40 * FP + clamp(((call.dilationRatio - FP) * FP)
                                  \div ((2 * FP) \div 10), 0, FP) * 20
       /\ call.dilationScore >= 40 * FP
       /\ call.dilationScore <= 60 * FP
       /\ call.dilationRatio = (115 * FP) \div 100
            => call.dilationScore = 55 * FP
       /\ call.dilationRatio >= UpperCap
            => call.dilationScore = 60 * FP

\* C25 witness: a call with ratio 1.15, three quarters of the way up
C25_Witness ==
    /\ call.fn = "calculateConcentrationScore"
    /\ call.dilationRatio = (115 * FP) \div 100
    /\ call.dilationScore = 55 * FP

\* C26: for every dilation ratio < 1.0 the dilation score is
\* 40 - clamp((1.0 - max(0.7, ratio)) / 0.3, 0, 1) * 40, within [0, 40], and
\* it is exactly 0 for every ratio <= 0.7.
C26_ConstrictionLowersScore ==
    (call.fn = "calculateConcentrationScore" /\ call.dilationRatio < FP)
    => /\ call.dilationScore =
              40 * FP - clamp(((FP - Max(LowerFloor, call.dilationRatio)) * FP)
                                  \div ((3 * FP) \div 10), 0, FP) * 40
       /\ call.dilationScore >= 0
       /\ call.dilationScore <= 40 * FP
       /\ call.dilationRatio <= LowerFloor => call.dilationScore = 0

\* C26 witness: a call with a ratio below the floor whose dilation score is
\* 0 and whose raw score comes from the other two terms
C26_Witness ==
    /\ call.fn = "calculateConcentrationScore"
    /\ call.dilationRatio < LowerFloor
    /\ call.dilationRatio > 0
    /\ call.dilationScore = 0
    /\ call.result > 0

\* the distances isEyeOpen and calculatePupilSize take of the four
\* landmarks of a call
verticalDist(c) ==
    hypot(c.pts.top.x - c.pts.bottom.x, c.pts.top.y - c.pts.bottom.y)

horizontalDist(c) ==
    hypot(c.pts.left.x - c.pts.right.x, c.pts.left.y - c.pts.right.y)

\* one of the four landmarks of a call is missing
landmarkMissing(c) ==
    \E k \in {"top", "bottom", "left", "right"} : ~c.pts[k].defined

\* C27: isEyeOpen returns false when fewer than 478 landmarks are supplied,
\* when one of the four eyelid and corner landmarks of the side is missing,
\* or when the two eye corners coincide; otherwise it returns true exactly
\* when verticalDist / horizontalDist > 0.1, so a ratio of exactly 0.1
\* counts as closed.
C27_IsEyeOpenFailsClosed ==
    call.fn = "isEyeOpen"
    => IF \/ ~call.keypoints
          \/ call.count < 478
          \/ landmarkMissing(call)
          \/ horizontalDist(call) = 0
       THEN call.result = FALSE
       ELSE /\ call.result <=> 10 * verticalDist(call) > horizontalDist(call)
            /\ 10 * verticalDist(call) = horizontalDist(call)
                 => call.result = FALSE

\* C27 witness: 478 landmarks, none of the four missing, an aspect ratio of
\* exactly 0.1, found closed
C27_Witness ==
    /\ call.fn = "isEyeOpen"
    /\ call.keypoints
    /\ call.count = 478
    /\ ~landmarkMissing(call)
    /\ horizontalDist(call) = 10 * FP
    /\ verticalDist(call) = FP
    /\ call.result = FALSE

\* C28: calculatePupilSize returns 0 when fewer than 478 landmarks are
\* supplied or one of the four iris landmarks of the side is missing;
\* otherwise it returns the mean of the vertical and the horizontal distance
\* in the pixels of the input, neither rescaled nor clamped.
C28_PupilSizeIsMeanDistance ==
    call.fn = "calculatePupilSize"
    => IF ~call.keypoints \/ call.count < 478 \/ landmarkMissing(call)
       THEN call.result = 0
       ELSE call.result = (verticalDist(call) + horizontalDist(call)) \div 2

\* C28 witness: an iris one pixel high and no pixel wide, whose size of half
\* a pixel is below minPupilSize and returned as it is
C28_Witness ==
    /\ call.fn = "calculatePupilSize"
    /\ call.keypoints
    /\ call.count >= 478
    /\ ~landmarkMissing(call)
    /\ verticalDist(call) = FP
    /\ horizontalDist(call) = 0
    /\ call.result = FP \div 2
    /\ call.result < minPupilSize

\* all samples of s are the same
allEqual(s) == \A i \in 1..Len(s) : s[i] = s[1]

\* C29: calculatePupilVariability returns 0 on a history of fewer than 10
\* samples and otherwise a value in [0, 1] computed from the last 10 samples
\* only; calculateStability returns 0 on fewer than 20 samples and otherwise
\* a value in [0, 1] computed from the last 20 only; neither modifies the
\* history.
C29_WindowedMeasures ==
    /\ call.fn = "calculatePupilVariability"
       => /\ Len(call.history) < 10 => call.result = 0
          /\ call.result >= 0 /\ call.result <= FP
          /\ call.result = calculatePupilVariability(LastK(call.history, 10))
          /\ allEqual(LastK(call.history, 10)) => call.result = 0
          /\ pupilSizeHistory = call.history
    /\ call.fn = "calculateStability"
       => /\ Len(call.history) < 20 => call.result = 0
          /\ call.result >= 0 /\ call.result <= FP
          /\ call.result = calculateStability(LastK(call.history, 20))
          /\ (Len(call.history) >= 20 /\ allEqual(LastK(call.history, 20)))
               => call.result = FP
          /\ pupilSizeHistory = call.history

\* C29 witness: a history of 11 samples whose oldest differs from the ten
\* after it, which are all the same: the variability is 0
C29_Witness ==
    /\ call.fn = "calculatePupilVariability"
    /\ Len(call.history) = 11
    /\ call.history[1] # call.history[2]
    /\ allEqual(LastK(call.history, 10))
    /\ call.result = 0

C31_SingleLoop == Loops <= 1

\* C32: a call of startDetection() that comes less than 1000 / frameRate ms
\* after the last one that started a detection starts no detection; when it
\* is a tick of the loop it changes no session state and, while tracking,
\* only reschedules itself. So two detections never start less than
\* 1000 / frameRate ms apart.
C32_FrameRateGate ==
    (clock.tick.seen /\ clock.tick.early)
    => /\ ~clock.tick.started
       /\ clock.tick.byLoop => clock.tick.same
       /\ (clock.tick.byLoop /\ clock.tick.alive) => clock.tick.rescheduled

\* C32 witness: at 30 frames per second a tick 33 ms after the start of a
\* detection has only rescheduled itself
C32_Witness ==
    /\ clock.tick.seen /\ clock.tick.early /\ clock.tick.alive
    /\ clock.tick.byLoop /\ clock.tick.rescheduled
    /\ config.frameRate = 30
    /\ clock.now - clock.lastStart = 33
    /\ Len(pupilSizeHistory) > 0

\* C33: while the session is uncalibrated concentrationLevel is 0, so no
\* frame that leaves it uncalibrated raises the level, and a valid sample is
\* appended to the history.
C33_UncalibratedLevelIsZero ==
    ~isCalibrated
    => /\ concentrationLevel = 0
       /\ (lastEvent = "sample" /\ accepted # <<>>)
            => /\ pupilSizeHistory # <<>>
               /\ pupilSizeHistory[Len(pupilSizeHistory)]
                    = accepted[Len(accepted)]
               /\ Len(pupilSizeHistory)
                    = Min(Len(accepted), config.maxHistorySize)

\* C33 witness: a session still uncalibrated after more valid samples than
\* the history holds, the last of them just appended
C33_Witness ==
    /\ ~isCalibrated
    /\ lastEvent = "sample"
    /\ Len(accepted) > config.maxHistorySize
    /\ Len(pupilSizeHistory) = config.maxHistorySize
    /\ concentrationLevel = 0

C35_CalibratedMeansFullProgress ==
    isCalibrated
    => /\ Len(pupilSizeHistory) >= config.calibrationFrames
       /\ calibrationProgress = 100 * FP

\* C35 witness: a calibrated session whose history has since filled up and
\* dropped its oldest sample
C35_Witness ==
    /\ isCalibrated
    /\ Len(accepted) > config.maxHistorySize
    /\ Len(pupilSizeHistory) = config.maxHistorySize
    /\ config.maxHistorySize > config.calibrationFrames
    /\ calibrationProgress = 100 * FP

\* C36: when, from some moment on, tracking is stopped and no start is
\* under way, then from some moment on no animation-frame callback is
\* pending and no call of estimateFaces is in flight.
C36_LoopDiesAfterStop ==
    <>[](~isTracking /\ ~metaArmed) => <>[](Loops = 0)

\* C36 witness: tracking is stopped, a frame that was in flight at the stop
\* has been processed since, and no callback or call is left
C36_Witness ==
    /\ ~isTracking /\ ~metaArmed
    /\ detector
    /\ pupilSizeHistory # <<>>
    /\ Loops = 0

\* C37: a frame on which estimateFaces throws leaves pupilSizeHistory,
\* baselinePupilSize, isCalibrated and concentrationLevel as they were and,
\* while tracking, requests the next animation frame: the call in flight
\* becomes the pending callback of this.animationId.
C37_ThrowIsCaught ==
    [][(frames' = frames + 1 /\ lastEvent' = "throw")
       => /\ pupilSizeHistory' = pupilSizeHistory
          /\ baselinePupilSize' = baselinePupilSize
          /\ isCalibrated' = isCalibrated
          /\ concentrationLevel' = concentrationLevel
          /\ isTracking => (rafCur' /\ Loops' = Loops)]_vars

\* C37 witness: a calibrated session with a positive level has just had a
\* frame on which estimateFaces threw, and its next tick is pending
C37_Witness ==
    /\ lastEvent = "throw"
    /\ isTracking /\ isCalibrated
    /\ concentrationLevel > 0
    /\ Len(pupilSizeHistory) >= config.calibrationFrames
    /\ rafCur

\* C38: the metrics that getMetrics() returns mirror the public fields:
\* after every processed frame and every start, stop and recalibrate,
\* metrics.level is concentrationLevel, metrics.isCalibrated is isCalibrated
\* and metrics.calibrationProgress is calibrationProgress.
C38_MetricsMirrorFields ==
    /\ metrics.level = concentrationLevel
    /\ metrics.isCalibrated = isCalibrated
    /\ metrics.calibrationProgress = calibrationProgress

====
